---- MODULE Spec2Model ----
(***************************************************************************)
(* Model of the scoring and grading engine of githubReports                *)
(* (src/analyzer.py, analyze_report) as a state machine: the input mapping *)
(* and the configuration are drawn in Init, analyze_report is one action;  *)
(* a second call on the same arguments follows the first.  The collection  *)
(* of the statistics (src/reporter.py, gather_stats), the paginated        *)
(* requests (src/github_api/core.py, paginated_get) and the selection of   *)
(* the users (src/main.py, determine_usernames) are state machines of      *)
(* their own, each with its own specification.                             *)
(***************************************************************************)
EXTENDS Integers, Sequences, FiniteSets, TLC

VARIABLES json_data, config, pc, result, status, argsort, result2, status2

\* gather_stats: its argument, the answers of the GitHub API, the position
\* in the code, the locals user (as an index), stats and results, the calls
\* made so far and the number of exceptions raised so far
VARIABLES usernames, api, gs_pc, gs_user, gs_metric, gs_stats, results, calls, failures

\* paginated_get: the position in the code, the locals page and results, the
\* requests sent with their responses, the arguments of time.sleep and the
\* value returned
VARIABLES pg_pc, page, pg_results, exchange, slept, pg_return

\* determine_usernames: its argument, the answer of get_collaborators and
\* the outcome
VARIABLES args, collaborators, du_outcome

analyzerVars == <<json_data, config, pc, result, status, argsort, result2, status2>>

gatherVars == <<usernames, api, gs_pc, gs_user, gs_metric, gs_stats, results, calls, failures>>

pageVars == <<pg_pc, page, pg_results, exchange, slept, pg_return>>

mainVars == <<args, collaborators, du_outcome>>

vars == <<analyzerVars, gatherVars, pageVars, mainVars>>

(***************************************************************************)
(* Bounds of the model.                                                    *)
(***************************************************************************)
\* largest number of entries of the input mapping
MaxUsers == 3
\* counters of the linear metrics range over 0..MaxCount (plus edge values)
MaxCount == 2
\* lines_added and lines_deleted range over 0..MaxLines
MaxLines == 35

(***************************************************************************)
(* Python values.  A value of a stats record is an int, None or a str; the *)
(* type tag keeps the three apart.                                         *)
(***************************************************************************)
IntV(n) == [type |-> "int", val |-> n]
NoneV == [type |-> "NoneType", val |-> 0]
StrV == [type |-> "str", val |-> 0]
Absent == [type |-> "absent", val |-> 0]

\* the nine keys analyze_report reads from a stats record
MetricKeys ==
    {"commits", "images_in_commits", "lines_added", "lines_deleted",
     "issues_created", "issues_resolved_by", "prs_opened",
     "prs_with_approvals", "comments"}

\* the letters of every key the model puts in a stats record
Spelling ==
    [commits |-> <<"c","o","m","m","i","t","s">>,
     images_in_commits |->
        <<"i","m","a","g","e","s","_","i","n","_","c","o","m","m","i","t","s">>,
     lines_added |-> <<"l","i","n","e","s","_","a","d","d","e","d">>,
     lines_deleted |-> <<"l","i","n","e","s","_","d","e","l","e","t","e","d">>,
     issues_created |->
        <<"i","s","s","u","e","s","_","c","r","e","a","t","e","d">>,
     issues_resolved_by |->
        <<"i","s","s","u","e","s","_","r","e","s","o","l","v","e","d","_","b","y">>,
     prs_opened |-> <<"p","r","s","_","o","p","e","n","e","d">>,
     prs_with_approvals |->
        <<"p","r","s","_","w","i","t","h","_","a","p","p","r","o","v","a","l","s">>,
     comments |-> <<"c","o","m","m","e","n","t","s">>,
     pr_reviews |-> <<"p","r","_","r","e","v","i","e","w","s">>,
     error |-> <<"e","r","r","o","r">>,
     commits_error |-> <<"c","o","m","m","i","t","s","_","e","r","r","o","r">>,
     lines_of_code_error |->
        <<"l","i","n","e","s","_","o","f","_","c","o","d","e","_","e","r","r","o","r">>,
     issues_created_error |-> <<"i","s","s","u","e","s","_","c","r","e","a","t","e","d","_","e","r","r","o","r">>,
     issues_resolved_by_error |-> <<"i","s","s","u","e","s","_","r","e","s","o","l","v","e","d","_","b","y","_","e","r","r","o","r">>,
     prs_opened_error |-> <<"p","r","s","_","o","p","e","n","e","d","_","e","r","r","o","r">>,
     prs_with_approvals_error |-> <<"p","r","s","_","w","i","t","h","_","a","p","p","r","o","v","a","l","s","_","e","r","r","o","r">>,
     pr_reviews_error |-> <<"p","r","_","r","e","v","i","e","w","s","_","e","r","r","o","r">>,
     comments_error |-> <<"c","o","m","m","e","n","t","s","_","e","r","r","o","r">>,
     pr_metrics_error |-> <<"p","r","_","m","e","t","r","i","c","s","_","e","r","r","o","r">>,
     images_in_commits_error |-> <<"i","m","a","g","e","s","_","i","n","_","c","o","m","m","i","t","s","_","e","r","r","o","r">>,
     avg_merge_time_seconds |-> <<"a","v","g","_","m","e","r","g","e","_","t","i","m","e","_","s","e","c","o","n","d","s">>,
     avg_pr_size |-> <<"a","v","g","_","p","r","_","s","i","z","e">>]

\* Python's `sub in s` on strings
Contains(s, sub) ==
    \E i \in 1..(Len(s) - Len(sub) + 1) : SubSeq(s, i, i + Len(sub) - 1) = sub

HasErrorKey_FirstMetricOnly(stats) ==
    "error" \in DOMAIN stats \/ "commits_error" \in DOMAIN stats

HasErrorKey_ExactMatch(stats) == \E key \in DOMAIN stats : key = "error"

\* any("error" in key for key in stats.keys())
HasErrorKey(stats) ==
    \E key \in DOMAIN stats : Contains(Spelling[key], <<"e","r","r","o","r">>)

(***************************************************************************)
(* Configuration: two sections, each a mapping from option name to int.    *)
(***************************************************************************)
ConfigGet_NoDefault(section, key, default) ==
    IF key \in DOMAIN section THEN section[key] ELSE 0

\* config[section].get(key, default), then int()
ConfigGet(section, key, default) ==
    IF key \in DOMAIN section THEN section[key] ELSE default

POINTS_PER_COMMIT(cfg) == ConfigGet(cfg.Scoring, "PointsPerCommit", 2)
BONUS_MB_COMMITS_THRESHOLD(cfg) == ConfigGet(cfg.Scoring, "BonusMbCommitsThreshold", 19)
BONUS_MB_POINTS(cfg) == ConfigGet(cfg.Scoring, "BonusMbPoints", 20)
POINTS_PER_IMAGE(cfg) == ConfigGet(cfg.Scoring, "PointsPerImage", 4)
POINTS_PER_ISSUE_CREATED(cfg) == ConfigGet(cfg.Scoring, "PointsPerIssueCreated", 1)
POINTS_PER_ISSUE_RESOLVED(cfg) == ConfigGet(cfg.Scoring, "PointsPerIssueResolved", 3)
POINTS_PER_PR_OPENED(cfg) == ConfigGet(cfg.Scoring, "PointsPerPrOpened", 2)
POINTS_PER_PR_APPROVED(cfg) == ConfigGet(cfg.Scoring, "PointsPerPrApproved", 3)
POINTS_PER_COMMENT(cfg) == ConfigGet(cfg.Scoring, "PointsPerComment", 1)
GRADE_MB_THRESHOLD(cfg) == ConfigGet(cfg.Grades, "MB", 70)
GRADE_B_THRESHOLD(cfg) == ConfigGet(cfg.Grades, "B", 40)
GRADE_R_THRESHOLD(cfg) == ConfigGet(cfg.Grades, "R", 15)

(***************************************************************************)
(* points_from_lines: floor(log10(1 + total) * 5) is the number of decimal *)
(* digits of (1 + total)^5, less one.  The digits are computed on a        *)
(* little-endian digit sequence so that the fifth power never overflows.   *)
(***************************************************************************)
RECURSIVE ToDigits(_)
ToDigits(x) == IF x = 0 THEN <<>> ELSE <<x % 10>> \o ToDigits(x \div 10)

RECURSIVE MulDigits(_, _, _)
MulDigits(ds, n, carry) ==
    IF ds = <<>> THEN ToDigits(carry)
    ELSE LET v == Head(ds) * n + carry
         IN  <<v % 10>> \o MulDigits(Tail(ds), n, v \div 10)

RECURSIVE PowDigits(_, _)
PowDigits(n, e) == IF e = 0 THEN <<1>> ELSE MulDigits(PowDigits(n, e - 1), n, 0)

\* math.floor(math.log10(n) * 5) for an integer n >= 1
FloorLog10Times5(n) == Len(PowDigits(n, 5)) - 1

Max(a, b) == IF a >= b THEN a ELSE b

points_from_lines_NoPlusOne(added, deleted) ==
    LET total == Max(0, added + deleted)
    IN  IF total > 0 THEN FloorLog10Times5(total) ELSE 0

points_from_lines_AddedOnly(added, deleted) ==
    LET total == Max(0, added)
    IN  IF total > 0 THEN FloorLog10Times5(1 + total) ELSE 0

points_from_lines(added, deleted) ==
    LET total == Max(0, added + deleted)
    IN  IF total > 0 THEN FloorLog10Times5(1 + total) ELSE 0

grade_from_total_Strict(total, cfg) ==
    IF total > GRADE_MB_THRESHOLD(cfg) THEN "MB"
    ELSE IF total > GRADE_B_THRESHOLD(cfg) THEN "B"
    ELSE IF total > GRADE_R_THRESHOLD(cfg) THEN "R"
    ELSE "I"

grade_from_total_FlippedB(total, cfg) ==
    IF total >= GRADE_MB_THRESHOLD(cfg) THEN "MB"
    ELSE IF total <= GRADE_B_THRESHOLD(cfg) THEN "B"
    ELSE IF total >= GRADE_R_THRESHOLD(cfg) THEN "R"
    ELSE "I"

grade_from_total(total, cfg) ==
    IF total >= GRADE_MB_THRESHOLD(cfg) THEN "MB"
    ELSE IF total >= GRADE_B_THRESHOLD(cfg) THEN "B"
    ELSE IF total >= GRADE_R_THRESHOLD(cfg) THEN "R"
    ELSE "I"

Get_DefaultOne(stats, key) == IF key \in DOMAIN stats THEN stats[key].val ELSE 1

\* int(stats.get(key, 0)) for a record whose metric values are ints
Get(stats, key) == IF key \in DOMAIN stats THEN stats[key].val ELSE 0

bonus_mb_Strict(commits, cfg) ==
    IF commits > BONUS_MB_COMMITS_THRESHOLD(cfg) THEN BONUS_MB_POINTS(cfg) ELSE 0

\* bonus_mb = BONUS_MB_POINTS if commits >= BONUS_MB_COMMITS_THRESHOLD else 0
bonus_mb(commits, cfg) ==
    IF commits >= BONUS_MB_COMMITS_THRESHOLD(cfg) THEN BONUS_MB_POINTS(cfg) ELSE 0

total_points_NoBonus(pc_, pi, pl, pic, pir, ppo, ppa, pcm, bonus) ==
    pc_ + pi + pl + pic + pir + ppo + ppa + pcm

total_points_MinusBonus(pc_, pi, pl, pic, pir, ppo, ppa, pcm, bonus) ==
    pc_ + pi + pl + pic + pir + ppo + ppa + pcm - bonus

\* total = pts_commits + ... + pts_comments + bonus_mb
total_points(pc_, pi, pl, pic, pir, ppo, ppa, pcm, bonus) ==
    pc_ + pi + pl + pic + pir + ppo + ppa + pcm + bonus

Justification_ImagesBeforeBonus(commits, bonus, images, lines_added, lines_deleted, issues_created, issues_resolved, prs_opened, prs_approved, comments) ==
    LET c1 == <<"commits">>
        c2 == IF images # 0 THEN Append(c1, "images") ELSE c1
        c3 == IF bonus # 0 THEN Append(c2, "bonus") ELSE c2
        c4 == IF lines_added + lines_deleted > 0
              THEN Append(c3, "lines changed") ELSE c3
        c5 == IF issues_created # 0 THEN Append(c4, "issues created") ELSE c4
        c6 == IF issues_resolved # 0 THEN Append(c5, "issues resolved") ELSE c5
        c7 == IF prs_opened # 0 THEN Append(c6, "prs opened") ELSE c6
        c8 == IF prs_approved # 0 THEN Append(c7, "prs approved") ELSE c7
        c9 == IF comments # 0 THEN Append(c8, "comments") ELSE c8
    IN  IF c9 = <<>> THEN <<"no measurable contributions">> ELSE c9

Justification_IssuesCopyPaste(commits, bonus, images, lines_added, lines_deleted, issues_created, issues_resolved, prs_opened, prs_approved, comments) ==
    LET c1 == <<"commits">>
        c2 == IF bonus # 0 THEN Append(c1, "bonus") ELSE c1
        c3 == IF images # 0 THEN Append(c2, "images") ELSE c2
        c4 == IF lines_added + lines_deleted > 0
              THEN Append(c3, "lines changed") ELSE c3
        c5 == IF issues_created # 0 THEN Append(c4, "issues created") ELSE c4
        c6 == IF issues_created # 0 THEN Append(c5, "issues resolved") ELSE c5
        c7 == IF prs_opened # 0 THEN Append(c6, "prs opened") ELSE c6
        c8 == IF prs_approved # 0 THEN Append(c7, "prs approved") ELSE c7
        c9 == IF comments # 0 THEN Append(c8, "comments") ELSE c8
    IN  IF c9 = <<>> THEN <<"no measurable contributions">> ELSE c9

\* justification_lines, as the sequence of the clauses appended
Justification(commits, bonus, images, lines_added, lines_deleted, issues_created, issues_resolved, prs_opened, prs_approved, comments) ==
    LET c1 == <<"commits">>
        c2 == IF bonus # 0 THEN Append(c1, "bonus") ELSE c1
        c3 == IF images # 0 THEN Append(c2, "images") ELSE c2
        c4 == IF lines_added + lines_deleted > 0
              THEN Append(c3, "lines changed") ELSE c3
        c5 == IF issues_created # 0 THEN Append(c4, "issues created") ELSE c4
        c6 == IF issues_resolved # 0 THEN Append(c5, "issues resolved") ELSE c5
        c7 == IF prs_opened # 0 THEN Append(c6, "prs opened") ELSE c6
        c8 == IF prs_approved # 0 THEN Append(c7, "prs approved") ELSE c7
        c9 == IF comments # 0 THEN Append(c8, "comments") ELSE c8
    IN  IF c9 = <<>> THEN <<"no measurable contributions">> ELSE c9

\* the body of the loop of analyze_report for one user without an error key
Row(user, stats, cfg) ==
    LET commits == Get(stats, "commits")
        images == Get(stats, "images_in_commits")
        lines_added == Get(stats, "lines_added")
        lines_deleted == Get(stats, "lines_deleted")
        issues_created == Get(stats, "issues_created")
        issues_resolved == Get(stats, "issues_resolved_by")
        prs_opened == Get(stats, "prs_opened")
        prs_approved == Get(stats, "prs_with_approvals")
        comments == Get(stats, "comments")
        pts_commits == commits * POINTS_PER_COMMIT(cfg)
        pts_images == images * POINTS_PER_IMAGE(cfg)
        pts_lines == points_from_lines(lines_added, lines_deleted)
        pts_issues_created == issues_created * POINTS_PER_ISSUE_CREATED(cfg)
        pts_issues_resolved == issues_resolved * POINTS_PER_ISSUE_RESOLVED(cfg)
        pts_prs_opened == prs_opened * POINTS_PER_PR_OPENED(cfg)
        pts_prs_approved == prs_approved * POINTS_PER_PR_APPROVED(cfg)
        pts_comments == comments * POINTS_PER_COMMENT(cfg)
        bonus == bonus_mb(commits, cfg)
        total == total_points(pts_commits, pts_images, pts_lines,
                              pts_issues_created, pts_issues_resolved,
                              pts_prs_opened, pts_prs_approved, pts_comments,
                              bonus)
        grade == grade_from_total(total, cfg)
    IN  [username |-> user,
         commits |-> commits,
         images |-> images,
         lines_added |-> lines_added,
         lines_deleted |-> lines_deleted,
         issues_created |-> issues_created,
         issues_resolved |-> issues_resolved,
         prs_opened |-> prs_opened,
         prs_approved |-> prs_approved,
         comments |-> comments,
         pts_commits |-> pts_commits,
         pts_images |-> pts_images,
         pts_lines |-> pts_lines,
         pts_issues_created |-> pts_issues_created,
         pts_issues_resolved |-> pts_issues_resolved,
         pts_prs_opened |-> pts_prs_opened,
         pts_prs_approved |-> pts_prs_approved,
         pts_comments |-> pts_comments,
         bonus_mb |-> bonus,
         total_points |-> total,
         grade |-> grade,
         justification |->
            [clauses |-> Justification(commits, bonus, images, lines_added,
                                       lines_deleted, issues_created,
                                       issues_resolved, prs_opened,
                                       prs_approved, comments),
             total |-> total,
             grade |-> grade]]

\* int(stats.get(key, 0)) raises TypeError on None
RaisesTypeError(stats) ==
    \E key \in MetricKeys \cap DOMAIN stats : stats[key].type = "NoneType"

\* the for loop of analyze_report raises at the first scored record it cannot read
LoopRaises(data) ==
    \E i \in 1..Len(data) :
        ~HasErrorKey(data[i].stats) /\ RaisesTypeError(data[i].stats)

RECURSIVE Rows_BreakOnError(_, _)
Rows_BreakOnError(data, cfg) ==
    IF data = <<>> THEN <<>>
    ELSE LET e == Head(data)
         IN  IF HasErrorKey(e.stats) THEN <<>>
             ELSE <<Row(e.user, e.stats, cfg)>> \o Rows_BreakOnError(Tail(data), cfg)

\* rows, after the for loop over json_data.items()
RECURSIVE Rows(_, _)
Rows(data, cfg) ==
    IF data = <<>> THEN <<>>
    ELSE LET e == Head(data)
         IN  IF HasErrorKey(e.stats) THEN Rows(Tail(data), cfg)
             ELSE <<Row(e.user, e.stats, cfg)>> \o Rows(Tail(data), cfg)

Injections(n) == {p \in [1..n -> 1..n] : \A i, j \in 1..n : i # j => p[i] # p[j]}

SortValues_Ascending(rows) ==
    {[i \in 1..Len(rows) |-> rows[p[i]]] :
        p \in {q \in Injections(Len(rows)) :
                 \A i, j \in 1..Len(rows) :
                    i < j => rows[q[i]].total_points <= rows[q[j]].total_points}}

\* df.sort_values(by="total_points", ascending=False).reset_index(drop=True):
\* the default kind is quicksort, which is not stable, so every descending
\* arrangement of the rows is a possible outcome
SortValues(rows) ==
    {[i \in 1..Len(rows) |-> rows[p[i]]] :
        p \in {q \in Injections(Len(rows)) :
                 \A i, j \in 1..Len(rows) :
                    i < j => rows[q[i]].total_points >= rows[q[j]].total_points}}

ZeroAndI(row) == row.total_points = 0 /\ row.grade = "I"

ZeroOrI(row) == row.total_points = 0 \/ row.grade = "I"

DropZeroActivity_TotalOnly(df) == SelectSeq(df, LAMBDA row : row.total_points # 0)

DropZeroActivity_Or(df) == SelectSeq(df, LAMBDA row : ~ZeroOrI(row))

\* df[~((df['total_points'] == 0) & (df['grade'] == 'I'))]
DropZeroActivity(df) == SelectSeq(df, LAMBDA row : ~ZeroAndI(row))

\* the column df["total_points"]
KeyColumn(rows) == [i \in 1..Len(rows) |-> rows[i].total_points]

\* the rows in the order of the index array p
Take(rows, p) == [i \in 1..Len(rows) |-> rows[p[i]]]

\* what the sort routine of this build returns for the key columns it has
\* sorted so far: the routine is not stable, but it is a function of the keys
NoMemo == [keys \in {} |-> <<>>]

Remember(memo, keys, p) ==
    [k \in DOMAIN memo \cup {keys} |-> IF k = keys THEN p ELSE memo[k]]

AnalyzeCalls_NoEmptyGuard(data, cfg, memo) ==
    IF LoopRaises(data) THEN {[status |-> "TypeError", df |-> <<>>, argsort |-> memo]}
    ELSE LET rows == Rows(data, cfg)
             keys == KeyColumn(rows)
         IN  IF rows = <<>>
             THEN {[status |-> "KeyError", df |-> <<>>, argsort |-> memo]}
             ELSE {[status |-> "returned",
                    df |-> DropZeroActivity(Take(rows, p)),
                    argsort |-> Remember(memo, keys, p)] :
                      p \in {q \in Injections(Len(rows)) :
                               /\ Take(rows, q) \in SortValues(rows)
                               /\ keys \in DOMAIN memo => q = memo[keys]}}

AnalyzeCalls_FreshOrder(data, cfg, memo) ==
    IF LoopRaises(data) THEN {[status |-> "TypeError", df |-> <<>>, argsort |-> memo]}
    ELSE LET rows == Rows(data, cfg)
             keys == KeyColumn(rows)
         IN  IF rows = <<>>
             THEN {[status |-> "returned", df |-> <<>>, argsort |-> memo]}
             ELSE {[status |-> "returned",
                    df |-> DropZeroActivity(Take(rows, p)),
                    argsort |-> Remember(memo, keys, p)] :
                      p \in {q \in Injections(Len(rows)) :
                               Take(rows, q) \in SortValues(rows)}}

\* every outcome of one call analyze_report(data, cfg) in a process whose
\* sort routine has answered memo so far: the exception raised or the rows
\* of the DataFrame returned, and what the sort routine has answered then
AnalyzeCalls(data, cfg, memo) ==
    IF LoopRaises(data) THEN {[status |-> "TypeError", df |-> <<>>, argsort |-> memo]}
    ELSE LET rows == Rows(data, cfg)
             keys == KeyColumn(rows)
         IN  IF rows = <<>>
             THEN {[status |-> "returned", df |-> <<>>, argsort |-> memo]}
             ELSE {[status |-> "returned",
                    df |-> DropZeroActivity(Take(rows, p)),
                    argsort |-> Remember(memo, keys, p)] :
                      p \in {q \in Injections(Len(rows)) :
                               /\ Take(rows, q) \in SortValues(rows)
                               /\ keys \in DOMAIN memo => q = memo[keys]}}

\* every outcome of analyze_report(data, cfg) in a fresh process: the
\* exception raised, or the rows of the DataFrame returned
AnalyzeOutcomes(data, cfg) ==
    {[status |-> o.status, df |-> o.df] : o \in AnalyzeCalls(data, cfg, NoMemo)}

(***************************************************************************)
(* Inputs.  The input mapping is a sequence of entries in iteration order; *)
(* the i-th entry belongs to the i-th name of Users.                       *)
(***************************************************************************)
Users == <<"alice", "bob", "carol", "dave", "erin", "frank">>

Entry(i, stats) == [user |-> Users[i], stats |-> stats]

\* the record with the keys of r that are present
Stats(r) == [k \in {k \in DOMAIN r : r[k] # Absent} |-> r[k]]

OptInt(S) == {IntV(n) : n \in S} \cup {Absent}

\* commit counts: small ones and the edges of the bonus thresholds 10 and 19
CommitVals == (0..MaxCount) \cup {9, 10, 18, 19, 20}

\* records over the linear metrics, every field absent, 0 or positive
LinearRecords ==
    {Stats([commits |-> c, images_in_commits |-> im, issues_created |-> ic,
            issues_resolved_by |-> ir, prs_opened |-> po,
            prs_with_approvals |-> pa, comments |-> cm]) :
        c \in OptInt(CommitVals), im \in OptInt(0..1), ic \in OptInt(0..1),
        ir \in OptInt(0..1), po \in OptInt(0..1), pa \in OptInt(0..1),
        cm \in OptInt(0..1)}

\* records over the lines-changed metric
LinesRecords ==
    {Stats([commits |-> c, lines_added |-> a, lines_deleted |-> d]) :
        c \in OptInt({0, 19}), a \in OptInt(0..MaxLines),
        d \in OptInt(0..MaxLines)}

\* records of the multi-user inputs: error markers, no activity, ties
SmallRecords ==
    {Stats([error |-> StrV]),
     Stats([commits_error |-> StrV, issues_created |-> IntV(3)]),
     Stats([lines_of_code_error |-> StrV, commits |-> IntV(20)]),
     Stats([commits |-> Absent]),
     Stats([commits |-> IntV(0), images_in_commits |-> IntV(0),
            issues_created |-> IntV(0), issues_resolved_by |-> IntV(0),
            prs_opened |-> IntV(0), prs_with_approvals |-> IntV(0),
            comments |-> IntV(0)]),
     Stats([commits |-> IntV(1)]),
     Stats([commits |-> IntV(1), pr_reviews |-> IntV(4)]),
     Stats([issues_created |-> IntV(2)]),
     Stats([commits |-> IntV(2), lines_added |-> IntV(9)]),
     Stats([commits |-> NoneV, comments |-> IntV(1)])}

\* records with an unexpected negative count, one for each counter and mixes
NegativeRecords ==
    {[x \in {k} |-> IntV(-1)] : k \in MetricKeys}
    \cup {Stats([commits |-> IntV(-1), comments |-> IntV(30)]),
          Stats([lines_added |-> IntV(-3), lines_deleted |-> IntV(1)]),
          Stats([lines_added |-> IntV(5), lines_deleted |-> IntV(-2),
                 images_in_commits |-> IntV(-1)])}

\* records with many changed lines: the powers of ten and the totals of the
\* test suite (99 + 1 and 100000 + 50000)
BigLinesRecords ==
    {Stats([lines_added |-> IntV(t)]) : t \in {10, 100, 1000, 10000, 100000}}
    \cup {Stats([lines_added |-> IntV(99), lines_deleted |-> IntV(1)]),
          Stats([lines_added |-> IntV(100000), lines_deleted |-> IntV(50000)])}

\* a configuration file without any option: every value is the default
DefaultsConfig == [Scoring |-> Stats([x |-> Absent]), Grades |-> Stats([x |-> Absent])]

\* the configuration of the test suite (src/tests/test_analyzer.py, setUp)
TestConfig ==
    [Scoring |-> [PointsPerCommit |-> 2, BonusMbCommitsThreshold |-> 10,
                  BonusMbPoints |-> 20, PointsPerImage |-> 1,
                  PointsPerIssueCreated |-> 3, PointsPerIssueResolved |-> 5,
                  PointsPerPrOpened |-> 4, PointsPerPrApproved |-> 6,
                  PointsPerComment |-> 1],
     Grades |-> [MB |-> 70, B |-> 40, R |-> 15]]

\* small weights and thresholds: every grade boundary is within reach of
\* small counters; one weight is 0
SmallConfig ==
    [Scoring |-> [PointsPerCommit |-> 1, BonusMbCommitsThreshold |-> 2,
                  BonusMbPoints |-> 3, PointsPerImage |-> 1,
                  PointsPerIssueCreated |-> 1, PointsPerIssueResolved |-> 2,
                  PointsPerPrOpened |-> 1, PointsPerPrApproved |-> 2,
                  PointsPerComment |-> 0],
     Grades |-> [MB |-> 6, B |-> 4, R |-> 2]]

Configs == {DefaultsConfig, TestConfig, SmallConfig}

\* an R threshold of 0; the other options as config.py writes them
ZeroRConfig ==
    [Scoring |-> [PointsPerCommit |-> 2, BonusMbCommitsThreshold |-> 19,
                  BonusMbPoints |-> 20, PointsPerImage |-> 4,
                  PointsPerIssueCreated |-> 1, PointsPerIssueResolved |-> 3,
                  PointsPerPrOpened |-> 2, PointsPerPrApproved |-> 3,
                  PointsPerComment |-> 1],
     Grades |-> [MB |-> 70, B |-> 40, R |-> 0]]

\* a configuration file with some options only, and a negative R threshold
PartialConfig ==
    [Scoring |-> [PointsPerCommit |-> 3, BonusMbPoints |-> 5],
     Grades |-> [R |-> -1]]

EdgeConfigs == {ZeroRConfig, PartialConfig}

RECURSIVE SeqsOfLen(_, _)
SeqsOfLen(S, n) ==
    IF n = 0 THEN {<<>>}
    ELSE {Append(s, x) : s \in SeqsOfLen(S, n - 1), x \in S}

\* the i-th record of recs becomes the entry of the i-th user
Mapping(recs) == [i \in 1..Len(recs) |-> Entry(i, recs[i])]

Inputs ==
    {Mapping(<<r>>) : r \in LinearRecords \cup LinesRecords}
    \cup UNION {{Mapping(recs) : recs \in SeqsOfLen(SmallRecords, n)} : n \in 0..MaxUsers}

\* the inputs that are also analysed under the edge configurations
EdgeInputs ==
    {Mapping(<<r>>) : r \in NegativeRecords \cup BigLinesRecords}
    \cup UNION {{Mapping(recs) : recs \in SeqsOfLen(SmallRecords, n)} : n \in 0..MaxUsers}

\* gather_stats, paginated_get and determine_usernames are not running
GatherIdle ==
    /\ usernames = <<>>
    /\ api = <<>>
    /\ gs_pc = "idle"
    /\ gs_user = 0
    /\ gs_metric = 0
    /\ gs_stats = <<>>
    /\ results = <<>>
    /\ calls = <<>>
    /\ failures = 0

PageIdle ==
    /\ pg_pc = "idle"
    /\ page = 0
    /\ pg_results = <<>>
    /\ exchange = <<>>
    /\ slept = <<>>
    /\ pg_return = [kind |-> "none", items |-> <<>>]

MainIdle ==
    /\ args = <<>>
    /\ collaborators = <<>>
    /\ du_outcome = [status |-> "none", code |-> 0, usernames |-> <<>>]

Init ==
    /\ GatherIdle
    /\ PageIdle
    /\ MainIdle
    /\ \/ json_data \in Inputs /\ config \in Configs
       \/ json_data \in EdgeInputs /\ config \in Configs \cup EdgeConfigs
    /\ pc = "called"
    /\ result = <<>>
    /\ status = "none"
    /\ argsort = NoMemo
    /\ result2 = <<>>
    /\ status2 = "none"

\* one call of analyze_report(json_data, config)
analyze_report ==
    /\ pc = "called"
    /\ \E out \in AnalyzeCalls(json_data, config, argsort) :
          /\ result' = out.df
          /\ status' = out.status
          /\ argsort' = out.argsort
    /\ pc' = "done"
    /\ UNCHANGED <<json_data, config, result2, status2>>
    /\ UNCHANGED <<gatherVars, pageVars, mainVars>>

\* the same call once more, in the same process
analyze_report_again ==
    /\ pc = "done"
    /\ \E out \in AnalyzeCalls(json_data, config, argsort) :
          /\ result2' = out.df
          /\ status2' = out.status
          /\ argsort' = out.argsort
    /\ pc' = "done2"
    /\ UNCHANGED <<json_data, config, result, status>>
    /\ UNCHANGED <<gatherVars, pageVars, mainVars>>

Next == analyze_report \/ analyze_report_again

Spec == Init /\ [][Next]_vars

(***************************************************************************)
(* Vocabulary of the properties.                                           *)
(***************************************************************************)
Done == pc \in {"done", "done2"}

Returned == Done /\ status = "returned"

OutputUsers == {result[i].username : i \in 1..Len(result)}

\* the keys of the model's records that contain the substring "error"
ErrorMarkedKeys == {"error", "commits_error", "lines_of_code_error"}

Marked(stats) == DOMAIN stats \cap ErrorMarkedKeys # {}

\* position of a user in the iteration order of the input mapping
InputIndex(u) == CHOOSE i \in 1..Len(json_data) : json_data[i].user = u

Tier(i) == result[i].grade

Points(i) == result[i].total_points

(***************************************************************************)
(* C1: in every record returned by analyze_report, total_points is the sum *)
(* of the eight per-metric point fields and bonus_mb of that record.       *)
(***************************************************************************)
C1_TotalIsSum ==
    Returned =>
        \A i \in 1..Len(result) :
            LET r == result[i]
            IN  r.total_points =
                    r.pts_commits + r.pts_images + r.pts_lines
                    + r.pts_issues_created + r.pts_issues_resolved
                    + r.pts_prs_opened + r.pts_prs_approved + r.pts_comments
                    + r.bonus_mb

\* a returned record in which the bonus and every linear metric score points
C1_Witness ==
    /\ Returned
    /\ \E i \in 1..Len(result) :
          LET r == result[i]
          IN  /\ r.bonus_mb > 0 /\ r.pts_commits > 0 /\ r.pts_images > 0
              /\ r.pts_issues_created > 0 /\ r.pts_issues_resolved > 0
              /\ r.pts_prs_opened > 0 /\ r.pts_prs_approved > 0
              /\ r.pts_comments > 0

(***************************************************************************)
(* C2: the grade is decided top-down with inclusive comparisons: MB from   *)
(* the MB threshold up, else B from the B threshold up, else R from the R  *)
(* threshold up, else I; a total on a threshold gets the higher tier, a    *)
(* total one below it the next lower tier.                                 *)
(***************************************************************************)
C2_GradeTopDownInclusive ==
    Returned =>
        \A i \in 1..Len(result) :
            LET t == Points(i)
                mb == GRADE_MB_THRESHOLD(config)
                b == GRADE_B_THRESHOLD(config)
                r == GRADE_R_THRESHOLD(config)
            IN  /\ Tier(i) = "MB" <=> t >= mb
                /\ Tier(i) = "B" <=> (t < mb /\ t >= b)
                /\ Tier(i) = "R" <=> (t < mb /\ t < b /\ t >= r)
                /\ Tier(i) = "I" <=> (t < mb /\ t < b /\ t < r)
                /\ t = mb => Tier(i) = "MB"
                /\ (t = mb - 1 /\ b < mb) => Tier(i) = "B"
                /\ (t = b /\ b < mb) => Tier(i) = "B"
                /\ (t = b - 1 /\ r < b /\ b < mb) => Tier(i) = "R"
                /\ (t = r /\ r < b /\ b < mb) => Tier(i) = "R"
                /\ (t = r - 1 /\ r < b /\ b < mb) => Tier(i) = "I"

\* one output holds a total on the R threshold and a total one below it
C2_Witness ==
    /\ Returned
    /\ \E i, j \in 1..Len(result) :
          /\ Points(i) = GRADE_R_THRESHOLD(config) /\ Tier(i) = "R"
          /\ Points(j) = GRADE_R_THRESHOLD(config) - 1 /\ Tier(j) = "I"

(***************************************************************************)
(* C3: an entry whose record has a key containing "error" never appears in *)
(* the output, whatever counters the record also holds.                    *)
(***************************************************************************)
C3_ErrorEntriesExcluded ==
    Done =>
        \A i \in 1..Len(json_data) :
            Marked(json_data[i].stats) => json_data[i].user \notin OutputUsers

\* a record with commits_error and a counter is left out of a non-empty output
C3_Witness ==
    /\ Returned
    /\ result # <<>>
    /\ \E i \in 1..Len(json_data) :
          /\ {"commits_error", "issues_created"} \subseteq DOMAIN json_data[i].stats
          /\ json_data[i].user \notin OutputUsers

(***************************************************************************)
(* C4: a user without an error key is output if and only if it is not the  *)
(* case that total_points = 0 and grade = "I"; a positive total with grade *)
(* I is output, all counters 0 under the default thresholds is not.        *)
(***************************************************************************)
AllCountersZero(stats) ==
    \A k \in MetricKeys \cap DOMAIN stats : stats[k] = IntV(0)

DefaultThresholds(cfg) ==
    /\ GRADE_MB_THRESHOLD(cfg) = 70
    /\ GRADE_B_THRESHOLD(cfg) = 40
    /\ GRADE_R_THRESHOLD(cfg) = 15
    /\ BONUS_MB_COMMITS_THRESHOLD(cfg) = 19

C4_OutputIffNotZeroAndI ==
    Returned =>
        \A i \in 1..Len(json_data) :
            LET e == json_data[i]
                row == Row(e.user, e.stats, config)
            IN  ~Marked(e.stats) =>
                  /\ e.user \in OutputUsers
                        <=> ~(row.total_points = 0 /\ row.grade = "I")
                  /\ (row.total_points > 0 /\ row.grade = "I")
                        => e.user \in OutputUsers
                  /\ (AllCountersZero(e.stats) /\ DefaultThresholds(config))
                        => e.user \notin OutputUsers

\* one call outputs a user with a positive total and grade I and drops a
\* user whose counters are all 0
C4_Witness ==
    /\ Returned
    /\ \E i \in 1..Len(result) : Points(i) > 0 /\ Tier(i) = "I"
    /\ \E i \in 1..Len(json_data) :
          /\ ~Marked(json_data[i].stats)
          /\ "commits" \in DOMAIN json_data[i].stats
          /\ AllCountersZero(json_data[i].stats)
          /\ json_data[i].user \notin OutputUsers

(***************************************************************************)
(* C5: the returned records are in descending order of total_points, also  *)
(* after the zero-activity rows are dropped.                               *)
(***************************************************************************)
C5_SortedDescending ==
    Returned =>
        \A i, j \in 1..Len(result) : i < j => Points(i) >= Points(j)

\* the input is not in descending order, a zero-activity row is dropped and
\* two rows with different totals are returned
C5_Witness ==
    /\ Returned
    /\ \E i, j \in 1..Len(result) :
          /\ Points(i) > Points(j)
          /\ InputIndex(result[i].username) > InputIndex(result[j].username)
    /\ \E i \in 1..Len(json_data) :
          /\ ~Marked(json_data[i].stats)
          /\ json_data[i].user \notin OutputUsers

(***************************************************************************)
(* C6: the sort is stable: two output users with equal total_points appear *)
(* in the order in which their keys are iterated in the input mapping.     *)
(***************************************************************************)
C6_StableSort ==
    Returned =>
        \A i, j \in 1..Len(result) :
            (i < j /\ Points(i) = Points(j))
                => InputIndex(result[i].username) < InputIndex(result[j].username)

(***************************************************************************)
(* C7: bonus_mb is the configured bonus when commits >= the configured     *)
(* threshold and 0 otherwise; it enters the total once and does not grow   *)
(* with the commit count.                                                  *)
(***************************************************************************)
C7_FlatBonus ==
    Returned =>
        \A i \in 1..Len(result) :
            LET r == result[i]
                thr == BONUS_MB_COMMITS_THRESHOLD(config)
                bonus == BONUS_MB_POINTS(config)
            IN  /\ r.bonus_mb = IF r.commits >= thr THEN bonus ELSE 0
                /\ r.commits = thr - 1 => r.bonus_mb = 0
                /\ r.commits = thr => r.bonus_mb = bonus
                /\ r.commits > thr => r.bonus_mb = bonus
                /\ r.total_points
                     - (r.pts_commits + r.pts_images + r.pts_lines
                        + r.pts_issues_created + r.pts_issues_resolved
                        + r.pts_prs_opened + r.pts_prs_approved
                        + r.pts_comments)
                   = r.bonus_mb

\* a record on the threshold gets the whole bonus
C7_Witness ==
    /\ Returned
    /\ \E i \in 1..Len(result) :
          /\ result[i].commits = BONUS_MB_COMMITS_THRESHOLD(config)
          /\ result[i].bonus_mb = BONUS_MB_POINTS(config)
          /\ result[i].bonus_mb > 0

(***************************************************************************)
(* C8: with total_lines = max(0, lines_added + lines_deleted), pts_lines   *)
(* is 0 when total_lines = 0 and otherwise the largest k with              *)
(* 10^k <= (1 + total_lines)^5; it is at least 1 when total_lines >= 1 and *)
(* never below the points of one line less.                                *)
(***************************************************************************)
C8_LinesLogScale ==
    Returned =>
        \A i \in 1..Len(result) :
            LET t == Max(0, result[i].lines_added + result[i].lines_deleted)
                k == result[i].pts_lines
            IN  /\ t = 0 => k = 0
                /\ t >= 1 =>
                      /\ k >= 1
                      /\ t <= 2 * MaxLines =>
                            /\ 10^k <= (1 + t)^5
                            /\ ((1 + t)^5) \div 10 < 10^k
                      /\ points_from_lines(t - 1, 0) <= k

\* 9 changed lines: (1 + 9)^5 is exactly 10^5
C8_Witness ==
    /\ Returned
    /\ \E i \in 1..Len(result) :
          /\ result[i].lines_added + result[i].lines_deleted = 9
          /\ result[i].pts_lines = 5

(***************************************************************************)
(* C9: a record without an error key that omits numeric fields is scored   *)
(* as the same record with those fields set to 0.                          *)
(***************************************************************************)
\* the record with every missing metric field set to 0
ZeroFilled(stats) ==
    [k \in DOMAIN stats \cup MetricKeys |->
        IF k \in DOMAIN stats THEN stats[k] ELSE IntV(0)]

ZeroFilledInput ==
    [i \in 1..Len(json_data) |->
        IF Marked(json_data[i].stats) THEN json_data[i]
        ELSE [user |-> json_data[i].user, stats |-> ZeroFilled(json_data[i].stats)]]

C9_MissingFieldsAreZero ==
    Returned =>
        /\ [status |-> "returned", df |-> result]
              \in AnalyzeOutcomes(ZeroFilledInput, config)
        /\ \A i \in 1..Len(json_data) :
              LET e == json_data[i]
              IN  ~Marked(e.stats) =>
                     (e.user \in OutputUsers
                        <=> ~ZeroAndI(Row(e.user, ZeroFilled(e.stats), config)))

\* a record with a single field is output
C9_Witness ==
    /\ Returned
    /\ \E i \in 1..Len(json_data) :
          /\ ~Marked(json_data[i].stats)
          /\ Cardinality(DOMAIN json_data[i].stats) = 1
          /\ json_data[i].user \in OutputUsers

(***************************************************************************)
(* C10: with non-negative integer counters analyze_report returns: an      *)
(* empty mapping, a mapping of error entries only and a mapping whose      *)
(* valid users all have zero activity each give the empty result.          *)
(***************************************************************************)
ValidCounters ==
    \A i \in 1..Len(json_data) :
        \A k \in MetricKeys \cap DOMAIN json_data[i].stats :
            json_data[i].stats[k].type = "int" /\ json_data[i].stats[k].val >= 0

C10_NeverRaises ==
    (Done /\ ValidCounters) =>
        /\ status = "returned"
        /\ json_data = <<>> => result = <<>>
        /\ (\A i \in 1..Len(json_data) : Marked(json_data[i].stats))
              => result = <<>>
        /\ (\A i \in 1..Len(json_data) :
               \/ Marked(json_data[i].stats)
               \/ ZeroAndI(Row(json_data[i].user, json_data[i].stats, config)))
              => result = <<>>

\* two entries, both with an error key: the call returns the empty result
C10_Witness ==
    /\ Returned
    /\ Len(json_data) >= 2
    /\ \A i \in 1..Len(json_data) : Marked(json_data[i].stats)
    /\ result = <<>>

(***************************************************************************)
(* C11: the grade is monotonic in total_points under I < R < B < MB: a     *)
(* smaller total never gets a higher grade, equal totals get equal grades. *)
(***************************************************************************)
Rank(g) == CASE g = "I" -> 0 [] g = "R" -> 1 [] g = "B" -> 2 [] g = "MB" -> 3

C11_GradeMonotonic ==
    Returned =>
        \A i \in 1..Len(result) :
            /\ \A t \in (-3)..Points(i) :
                  Rank(grade_from_total(t, config)) <= Rank(Tier(i))
            /\ \A j \in 1..Len(result) :
                  /\ Points(i) <= Points(j) => Rank(Tier(i)) <= Rank(Tier(j))
                  /\ Points(i) = Points(j) => Tier(i) = Tier(j)

\* one output holds two users with the same total and a user with a larger
\* total and a higher grade
C11_Witness ==
    /\ Returned
    /\ \E i, j, k \in 1..Len(result) :
          /\ i # j /\ Points(i) = Points(j)
          /\ Points(j) < Points(k) /\ Rank(Tier(j)) < Rank(Tier(k))

NonNegativeWeights(cfg) ==
    /\ POINTS_PER_COMMIT(cfg) >= 0 /\ POINTS_PER_IMAGE(cfg) >= 0
    /\ POINTS_PER_ISSUE_CREATED(cfg) >= 0 /\ POINTS_PER_ISSUE_RESOLVED(cfg) >= 0
    /\ POINTS_PER_PR_OPENED(cfg) >= 0 /\ POINTS_PER_PR_APPROVED(cfg) >= 0
    /\ POINTS_PER_COMMENT(cfg) >= 0 /\ BONUS_MB_POINTS(cfg) >= 0

PointFields ==
    {"pts_commits", "pts_images", "pts_lines", "pts_issues_created",
     "pts_issues_resolved", "pts_prs_opened", "pts_prs_approved",
     "pts_comments"}

C13_PointsNonNegative ==
    (Returned /\ ValidCounters /\ NonNegativeWeights(config)) =>
        \A i \in 1..Len(result) :
            /\ \A f \in PointFields : result[i][f] \in Nat
            /\ result[i].bonus_mb \in Nat
            /\ result[i].total_points \in Nat

\* a record with a bonus, commits and changed lines
C13_Witness ==
    /\ Returned /\ ValidCounters /\ NonNegativeWeights(config)
    /\ \E i \in 1..Len(result) :
          /\ result[i].bonus_mb > 0
          /\ result[i].pts_lines > 0
          /\ result[i].pts_commits > 0

(***************************************************************************)
(* C14: for a record that carries a negative count (weights non-negative), *)
(* no per-metric point contribution of the resulting record is negative.   *)
(***************************************************************************)
CounterFields ==
    {"commits", "images", "lines_added", "lines_deleted", "issues_created",
     "issues_resolved", "prs_opened", "prs_approved", "comments"}

C14_NoNegativeContribution ==
    (Returned /\ NonNegativeWeights(config)) =>
        \A i \in 1..Len(result) :
            (\E c \in CounterFields : result[i][c] < 0)
                => \A f \in PointFields : result[i][f] >= 0

(***************************************************************************)
(* C15: an option absent from the configuration is not silently replaced   *)
(* by a value that is then used for scoring.  The code does replace it:    *)
(* the amended statement is that every absent weight, bonus setting and    *)
(* grade threshold is read as its built-in default, the value config.py    *)
(* writes to a new configuration file.                                     *)
(***************************************************************************)
\* DEFAULT_SCORING_CONFIG and DEFAULT_GRADES_CONFIG of config.py
DEFAULT_SCORING_CONFIG ==
    [PointsPerCommit |-> 2, BonusMbCommitsThreshold |-> 19,
     BonusMbPoints |-> 20, PointsPerImage |-> 4,
     PointsPerIssueCreated |-> 1, PointsPerIssueResolved |-> 3,
     PointsPerPrOpened |-> 2, PointsPerPrApproved |-> 3,
     PointsPerComment |-> 1]

DEFAULT_GRADES_CONFIG == [MB |-> 70, B |-> 40, R |-> 15]

Completed(section, defaults) ==
    [k \in DOMAIN defaults |-> IF k \in DOMAIN section THEN section[k] ELSE defaults[k]]

CompletedConfig(cfg) ==
    [Scoring |-> Completed(cfg.Scoring, DEFAULT_SCORING_CONFIG),
     Grades |-> Completed(cfg.Grades, DEFAULT_GRADES_CONFIG)]

Incomplete(cfg) ==
    \/ DOMAIN cfg.Scoring # DOMAIN DEFAULT_SCORING_CONFIG
    \/ DOMAIN cfg.Grades # DOMAIN DEFAULT_GRADES_CONFIG

\* the claim as stated: with an option missing no record is scored
C15_NoConfigDefaults ==
    (Done /\ Incomplete(config)) => result = <<>>

\* the amended claim
C15_ConfigDefaultsApplied ==
    (Returned /\ Incomplete(config)) =>
        [status |-> "returned", df |-> result]
            \in AnalyzeOutcomes(json_data, CompletedConfig(config))

\* records are scored under a configuration with some options only
C15_Witness ==
    /\ Returned
    /\ config = PartialConfig
    /\ \E i \in 1..Len(result) : result[i].pts_commits > 0

(***************************************************************************)
(* C16: a scored user without any measurable activity (every counter 0, no *)
(* bonus, total 0) has the single clause "no measurable contributions" in  *)
(* place of the commits clause.                                            *)
(***************************************************************************)
C16_NoMeasurableClause ==
    Returned =>
        \A i \in 1..Len(result) :
            LET r == result[i]
            IN  ((\A c \in CounterFields : r[c] = 0)
                    /\ r.bonus_mb = 0 /\ r.total_points = 0)
                  => r.justification.clauses = <<"no measurable contributions">>

(***************************************************************************)
(* C17: the justification lists its clauses in the fixed order commits,    *)
(* bonus, images, lines changed, issues created, issues resolved, PRs      *)
(* opened, PRs approved, comments; the commits clause is always there,     *)
(* every other clause only when its metric is non-zero (the bonus only     *)
(* when awarded); it ends with the record's total_points and grade.        *)
(***************************************************************************)
ClauseOrder ==
    <<"commits", "bonus", "images", "lines changed", "issues created",
      "issues resolved", "prs opened", "prs approved", "comments">>

Clauses(i) == result[i].justification.clauses

Named(i, c) == \E a \in 1..Len(Clauses(i)) : Clauses(i)[a] = c

ClausePos(c) == CHOOSE k \in 1..Len(ClauseOrder) : ClauseOrder[k] = c

C17_JustificationOrder ==
    Returned =>
        \A i \in 1..Len(result) :
            LET r == result[i]
                cl == Clauses(i)
            IN  /\ \A a \in 1..Len(cl) : \E k \in 1..Len(ClauseOrder) : ClauseOrder[k] = cl[a]
                /\ \A a, b \in 1..Len(cl) : a < b => ClausePos(cl[a]) < ClausePos(cl[b])
                /\ Len(cl) >= 1 /\ cl[1] = "commits"
                /\ Named(i, "bonus") =>
                      (r.bonus_mb # 0 /\ r.commits >= BONUS_MB_COMMITS_THRESHOLD(config))
                /\ Named(i, "images") => r.images # 0
                /\ Named(i, "lines changed") => r.lines_added + r.lines_deleted # 0
                /\ Named(i, "issues created") => r.issues_created # 0
                /\ Named(i, "issues resolved") => r.issues_resolved # 0
                /\ Named(i, "prs opened") => r.prs_opened # 0
                /\ Named(i, "prs approved") => r.prs_approved # 0
                /\ Named(i, "comments") => r.comments # 0
                /\ r.justification.total = r.total_points
                /\ r.justification.grade = r.grade

\* a record with 0 commits and other clauses, and a record with the bonus,
\* the images and the comments clause
C17_Witness ==
    /\ Returned
    /\ \E i \in 1..Len(result) :
          \/ /\ result[i].commits = 0 /\ Len(Clauses(i)) >= 3
             /\ Clauses(i)[1] = "commits"
          \/ /\ Named(i, "bonus") /\ Named(i, "images") /\ Named(i, "comments")
             /\ result[i].issues_created = 0

(***************************************************************************)
(* C18: apart from the commits clause the justification names a metric if  *)
(* and only if the metric contributed a non-zero number of points, also    *)
(* when a weight is 0 and the count positive.  The code decides by the     *)
(* count: the amended statement is that a metric is named if and only if   *)
(* its count is non-zero (lines: lines_added + lines_deleted > 0, bonus:   *)
(* bonus_mb non-zero), which is the same as non-zero points when the       *)
(* weight is non-zero; with a weight of 0 and a non-zero count the clause  *)
(* is present with 0 points.                                               *)
(***************************************************************************)
\* clause, counter field, point field and weight of the linear metrics
LinearMetrics ==
    {<<"images", "images", "pts_images", POINTS_PER_IMAGE(config)>>,
     <<"issues created", "issues_created", "pts_issues_created",
       POINTS_PER_ISSUE_CREATED(config)>>,
     <<"issues resolved", "issues_resolved", "pts_issues_resolved",
       POINTS_PER_ISSUE_RESOLVED(config)>>,
     <<"prs opened", "prs_opened", "pts_prs_opened", POINTS_PER_PR_OPENED(config)>>,
     <<"prs approved", "prs_approved", "pts_prs_approved",
       POINTS_PER_PR_APPROVED(config)>>,
     <<"comments", "comments", "pts_comments", POINTS_PER_COMMENT(config)>>}

\* the claim as stated
C18_NamedIffPoints ==
    Returned =>
        \A i \in 1..Len(result) :
            /\ Named(i, "bonus") <=> result[i].bonus_mb # 0
            /\ Named(i, "lines changed") <=> result[i].pts_lines # 0
            /\ \A m \in LinearMetrics : Named(i, m[1]) <=> result[i][m[3]] # 0

\* the amended claim
C18_NamedIffCounted ==
    Returned =>
        \A i \in 1..Len(result) :
            /\ Named(i, "bonus") <=> result[i].bonus_mb # 0
            /\ Named(i, "lines changed")
                  <=> result[i].lines_added + result[i].lines_deleted > 0
            /\ Named(i, "lines changed") <=> result[i].pts_lines # 0
            /\ \A m \in LinearMetrics :
                  /\ Named(i, m[1]) <=> result[i][m[2]] # 0
                  /\ m[4] # 0 => (Named(i, m[1]) <=> result[i][m[3]] # 0)
                  /\ (m[4] = 0 /\ result[i][m[2]] # 0)
                        => (Named(i, m[1]) /\ result[i][m[3]] = 0)

\* a comment count of 1 under a comment weight of 0: the clause is present
C18_Witness ==
    /\ Returned
    /\ POINTS_PER_COMMENT(config) = 0
    /\ \E i \in 1..Len(result) :
          /\ result[i].comments > 0
          /\ result[i].pts_comments = 0
          /\ Named(i, "comments")
          /\ result[i].issues_resolved > 0 /\ result[i].issues_created = 0

(***************************************************************************)
(* C19: the lines-changed metric yields 2 points for 10 changed lines, 10  *)
(* for 100, 15 for 1,000, 20 for 10,000 and 25 for 100,000.  The code      *)
(* gives 5 points for 10 lines; the other four values are as stated.       *)
(***************************************************************************)
ChangedLines(i) == result[i].lines_added + result[i].lines_deleted

\* the claim as stated
C19_LinesTableAsStated ==
    Returned =>
        \A i \in 1..Len(result) :
            /\ ChangedLines(i) = 10 => result[i].pts_lines = 2
            /\ ChangedLines(i) = 100 => result[i].pts_lines = 10
            /\ ChangedLines(i) = 1000 => result[i].pts_lines = 15
            /\ ChangedLines(i) = 10000 => result[i].pts_lines = 20
            /\ ChangedLines(i) = 100000 => result[i].pts_lines = 25

\* the amended claim
C19_LinesTable ==
    Returned =>
        \A i \in 1..Len(result) :
            /\ ChangedLines(i) = 10 => result[i].pts_lines = 5
            /\ ChangedLines(i) = 100 => result[i].pts_lines = 10
            /\ ChangedLines(i) = 1000 => result[i].pts_lines = 15
            /\ ChangedLines(i) = 10000 => result[i].pts_lines = 20
            /\ ChangedLines(i) = 100000 => result[i].pts_lines = 25

\* 100 changed lines, 99 added and 1 deleted, score 10 points
C19_Witness ==
    /\ Returned
    /\ \E i \in 1..Len(result) :
          /\ result[i].lines_added = 99 /\ result[i].lines_deleted = 1
          /\ result[i].pts_lines = 10

(***************************************************************************)
(* C20: with an R threshold <= 0 a valid user with total_points = 0 gets a *)
(* grade other than "I" and is kept in the output.                         *)
(***************************************************************************)
C20_ZeroTotalKeptWhenRNotPositive ==
    (Returned /\ GRADE_R_THRESHOLD(config) <= 0) =>
        \A i \in 1..Len(json_data) :
            LET e == json_data[i]
            IN  (~Marked(e.stats) /\ Row(e.user, e.stats, config).total_points = 0)
                  => \E j \in 1..Len(result) :
                        /\ result[j].username = e.user
                        /\ result[j].total_points = 0
                        /\ result[j].grade # "I"

\* a user whose counters are all 0 is output with grade R
C20_Witness ==
    /\ Returned
    /\ GRADE_R_THRESHOLD(config) <= 0
    /\ \E j \in 1..Len(result) :
          /\ result[j].total_points = 0 /\ result[j].grade = "R"
          /\ result[j].commits = 0

(***************************************************************************)
(* C21: the result does not depend on the iteration order of the input     *)
(* mapping, except for the relative order of users with equal              *)
(* total_points: for every permutation of the input entries the set of     *)
(* output records is the same, and both outputs are sorted by total_points *)
(* descending.                                                             *)
(***************************************************************************)
Permuted(data, p) == [i \in 1..Len(data) |-> data[p[i]]]

RecordSet(df) == {df[i] : i \in 1..Len(df)}

Descending(df) ==
    \A i, j \in 1..Len(df) : i < j => df[i].total_points >= df[j].total_points

C21_InputOrderIrrelevant ==
    Returned =>
        \A p \in Injections(Len(json_data)) :
            \A o \in AnalyzeOutcomes(Permuted(json_data, p), config) :
                /\ o.status = "returned"
                /\ Len(o.df) = Len(result)
                /\ RecordSet(o.df) = RecordSet(result)
                /\ Descending(o.df)
                /\ Descending(result)

\* two users with different totals are output, an error-marked entry comes
\* before a scored one in the input
C21_Witness ==
    /\ Returned
    /\ Len(result) >= 2
    /\ result[1].total_points > result[2].total_points
    /\ \E i, j \in 1..Len(json_data) :
          /\ i < j
          /\ Marked(json_data[i].stats)
          /\ json_data[j].user \in OutputUsers

(***************************************************************************)
(* gather_stats (src/reporter.py).  The function runs as a process: one    *)
(* step for the existence check of a user, one step for every try block.   *)
(* user_exists answers True or False at every call (it answers False on a  *)
(* request error as well); a metric function returns the count the         *)
(* repository holds, or raises.                                            *)
(***************************************************************************)
\* largest number of exceptions the metric functions raise in one run
MaxFailures == 2

\* the try blocks in their order: the function called, the keys it stores,
\* the key of its exception text
Metrics ==
    <<[fn |-> "count_commits", keys |-> {"commits"}, err |-> "commits_error"],
      [fn |-> "count_issues_created", keys |-> {"issues_created"},
       err |-> "issues_created_error"],
      [fn |-> "count_issues_resolved_by", keys |-> {"issues_resolved_by"},
       err |-> "issues_resolved_by_error"],
      [fn |-> "count_prs_opened", keys |-> {"prs_opened"}, err |-> "prs_opened_error"],
      [fn |-> "count_prs_approved", keys |-> {"prs_with_approvals"},
       err |-> "prs_with_approvals_error"],
      [fn |-> "count_lines_of_code", keys |-> {"lines_added", "lines_deleted"},
       err |-> "lines_of_code_error"],
      [fn |-> "count_pr_reviews", keys |-> {"pr_reviews"}, err |-> "pr_reviews_error"],
      [fn |-> "count_comments", keys |-> {"comments"}, err |-> "comments_error"],
      [fn |-> "get_pr_metrics", keys |-> {"avg_merge_time_seconds", "avg_pr_size"},
       err |-> "pr_metrics_error"],
      [fn |-> "count_images_in_commits", keys |-> {"images_in_commits"},
       err |-> "images_in_commits_error"]>>

ValueKeys == UNION {Metrics[k].keys : k \in 1..Len(Metrics)}

\* the str values gather_stats stores
UserNotFound == [type |-> "str", val |-> 1]
ExceptionText == [type |-> "str", val |-> 2]

\* what the metric functions return: a repository without activity of the
\* user, and one with activity in every metric
QuietRepository == [k \in ValueKeys |-> IntV(0)]

ActiveRepository ==
    [k \in ValueKeys |->
        CASE k = "commits" -> IntV(20)
          [] k = "lines_added" -> IntV(10)
          [] k = "lines_deleted" -> IntV(5)
          [] OTHER -> IntV(1)]

Repositories == {QuietRepository, ActiveRepository}

\* the lists of usernames gather_stats is called with
UsernameLists ==
    {<<>>, <<"alice">>, <<"alice", "bob">>, <<"bob", "alice">>, <<"alice", "alice">>}

\* results[user] = stats on a dict kept in insertion order
Put_AppendAlways(res, user, st) == Append(res, [user |-> user, stats |-> st])

Put(res, user, st) ==
    IF \E i \in 1..Len(res) : res[i].user = user
    THEN [i \in 1..Len(res) |->
            IF res[i].user = user THEN [user |-> user, stats |-> st] ELSE res[i]]
    ELSE Append(res, [user |-> user, stats |-> st])

Collected_ZeroOnError(st, m, raised) ==
    IF raised
    THEN (m.err :> ExceptionText) @@ [k \in m.keys |-> IntV(0)] @@ st
    ELSE [k \in m.keys |-> api[k]] @@ st

\* stats after the try block of metric m
Collected(st, m, raised) ==
    IF raised
    THEN (m.err :> ExceptionText) @@ st
    ELSE [k \in m.keys |-> api[k]] @@ st

GatherInit ==
    /\ usernames \in UsernameLists
    /\ api \in Repositories
    /\ gs_pc = "for"
    /\ gs_user = 1
    /\ gs_metric = 0
    /\ gs_stats = <<>>
    /\ results = <<>>
    /\ calls = <<>>
    /\ failures = 0
    /\ json_data = <<>>
    /\ config \in {DefaultsConfig, ZeroRConfig}
    /\ pc = "idle"
    /\ result = <<>>
    /\ status = "none"
    /\ argsort = NoMemo
    /\ result2 = <<>>
    /\ status2 = "none"
    /\ PageIdle
    /\ MainIdle

\* the head of the loop body: stats = {} and the call of user_exists
gs_user_exists ==
    /\ gs_pc = "for"
    /\ gs_user <= Len(usernames)
    /\ \E exists \in BOOLEAN :
          /\ calls' = Append(calls, [user |-> gs_user, fn |-> "user_exists",
                                     outcome |-> IF exists THEN "True" ELSE "False"])
          /\ IF exists
             THEN /\ gs_pc' = "try"
                  /\ gs_metric' = 1
                  /\ gs_stats' = <<>>
                  /\ UNCHANGED <<results, gs_user>>
             ELSE /\ gs_stats' = ("error" :> UserNotFound)
                  /\ results' = Put(results, usernames[gs_user], gs_stats')
                  /\ gs_user' = gs_user + 1
                  /\ UNCHANGED <<gs_pc, gs_metric>>
    /\ UNCHANGED <<usernames, api, failures>>
    /\ UNCHANGED <<analyzerVars, pageVars, mainVars>>

\* one try block; after the last one results[user] = stats
gs_collect ==
    /\ gs_pc = "try"
    /\ \E raised \in BOOLEAN :
          /\ raised => failures < MaxFailures
          /\ calls' = Append(calls, [user |-> gs_user, fn |-> Metrics[gs_metric].fn,
                                     outcome |-> IF raised THEN "raised" ELSE "returned"])
          /\ failures' = failures + (IF raised THEN 1 ELSE 0)
          /\ gs_stats' = Collected(gs_stats, Metrics[gs_metric], raised)
    /\ IF gs_metric < Len(Metrics)
       THEN /\ gs_metric' = gs_metric + 1
            /\ UNCHANGED <<gs_pc, gs_user, results>>
       ELSE /\ results' = Put(results, usernames[gs_user], gs_stats')
            /\ gs_user' = gs_user + 1
            /\ gs_metric' = 0
            /\ gs_pc' = "for"
    /\ UNCHANGED <<usernames, api>>
    /\ UNCHANGED <<analyzerVars, pageVars, mainVars>>

\* return results
gs_return ==
    /\ gs_pc = "for"
    /\ gs_user > Len(usernames)
    /\ gs_pc' = "returned"
    /\ UNCHANGED <<usernames, api, gs_user, gs_metric, gs_stats, results, calls, failures>>
    /\ UNCHANGED <<analyzerVars, pageVars, mainVars>>

\* main: df = analyzer.analyze_report(report_data, config)
main_analyze ==
    /\ gs_pc = "returned"
    /\ pc = "idle"
    /\ json_data' = results
    /\ \E out \in AnalyzeCalls(results, config, argsort) :
          /\ result' = out.df
          /\ status' = out.status
          /\ argsort' = out.argsort
    /\ pc' = "done"
    /\ UNCHANGED <<config, result2, status2>>
    /\ UNCHANGED <<gatherVars, pageVars, mainVars>>

GatherNext == gs_user_exists \/ gs_collect \/ gs_return \/ main_analyze

GatherSpec == GatherInit /\ [][GatherNext]_vars

(***************************************************************************)
(* Vocabulary of the properties of gather_stats.                           *)
(***************************************************************************)
GatherReturned == gs_pc = "returned"

\* the calls of the j-th iteration of the loop
CallsOf(j) == SelectSeq(calls, LAMBDA c : c.user = j)

NotFoundAt(j) ==
    \E n \in 1..Len(calls) :
        calls[n].user = j /\ calls[n].fn = "user_exists" /\ calls[n].outcome = "False"

\* no later iteration assigns results[usernames[j]] again
LastOccurrence(j) == \A k \in (j + 1)..Len(usernames) : usernames[k] # usernames[j]

EntryOf(res, u) == res[CHOOSE i \in 1..Len(res) : res[i].user = u].stats

MetricErrorKeys == {Metrics[k].err : k \in 1..Len(Metrics)}

(***************************************************************************)
(* C22: gather_stats returns a mapping with exactly one entry for every    *)
(* requested username; for a username for which user_exists is false the   *)
(* entry is exactly {"error": "User not found"}, no metric function is     *)
(* called for that user, and processing continues with the next username.  *)
(***************************************************************************)
C22_OneEntryPerUsername ==
    GatherReturned =>
        /\ {results[i].user : i \in 1..Len(results)}
              = {usernames[j] : j \in 1..Len(usernames)}
        /\ \A i1, i2 \in 1..Len(results) : results[i1].user = results[i2].user => i1 = i2
        /\ \A j \in 1..Len(usernames) :
              /\ Len(CallsOf(j)) >= 1
              /\ CallsOf(j)[1].fn = "user_exists"
              /\ NotFoundAt(j) =>
                    /\ Len(CallsOf(j)) = 1
                    /\ LastOccurrence(j) =>
                          EntryOf(results, usernames[j]) = ("error" :> UserNotFound)

\* the first user is not found, the second one is and has its metrics collected
C22_Witness ==
    /\ GatherReturned
    /\ Len(usernames) = 2
    /\ NotFoundAt(1)
    /\ ~NotFoundAt(2)
    /\ Len(CallsOf(2)) > 1
    /\ Len(results) = 2

C29_PartialFailureExcludesUser ==
    (GatherReturned /\ Done) =>
        /\ status = "returned"
        /\ \A i \in 1..Len(json_data) :
              DOMAIN json_data[i].stats \cap MetricErrorKeys # {}
                  => json_data[i].user \notin OutputUsers
        /\ \A u \in OutputUsers :
              \E j \in 1..Len(usernames) :
                  /\ usernames[j] = u
                  /\ LastOccurrence(j)
                  /\ \A n \in 1..Len(CallsOf(j)) :
                        CallsOf(j)[n].outcome \in {"True", "returned"}
                  /\ Len(CallsOf(j)) = 1 + Len(Metrics)

\* one of ten collections raised for a user with activity, that user is not
\* in the output and the other user is
C29_Witness ==
    /\ GatherReturned
    /\ Done
    /\ Len(json_data) = 2
    /\ Len(result) = 1
    /\ \E i \in 1..Len(json_data) :
          /\ DOMAIN json_data[i].stats \cap MetricErrorKeys = {"comments_error"}
          /\ json_data[i].stats["commits"] = IntV(20)
          /\ "images_in_commits" \in DOMAIN json_data[i].stats
          /\ json_data[i].user \notin OutputUsers

(***************************************************************************)
(* paginated_get (src/github_api/core.py).  One step is one pass of the    *)
(* while loop: the request of the current page and the handling of its     *)
(* response.  The server chooses the response at every request; exchange   *)
(* records the page number asked for and the response received.            *)
(***************************************************************************)
\* params["per_page"]
PerPage == 2
\* largest number of rate-limit responses of one call
MaxRateLimits == 2
\* largest number of pages that hold per_page items in one call
MaxFullPages == 2

\* header values: a string of digits, an HTTP date
Seconds(n) == [type |-> "digits", val |-> n]
HttpDate == [type |-> "date", val |-> 0]

Response(kind, items, retry_after, reset) ==
    [kind |-> kind, items |-> items, retry_after |-> retry_after, reset |-> reset]

\* status 403 with "rate limit" in the body; reset is the number of seconds
\* from now to X-RateLimit-Reset
RateLimitResponses ==
    {Response("rate_limit", <<>>, Seconds(2), Absent),
     Response("rate_limit", <<>>, Absent, Absent),
     Response("rate_limit", <<>>, Absent, IntV(5))}

\* the request raises, the status is an error status, the body is not JSON,
\* Retry-After is not a number
FailureResponses ==
    {Response("connection_error", <<>>, Absent, Absent),
     Response("forbidden", <<>>, Absent, Absent),
     Response("server_error", <<>>, Absent, Absent),
     Response("bad_json", <<>>, Absent, Absent),
     Response("rate_limit", <<>>, HttpDate, Absent)}

\* the n items of the response to the next request
ItemsOf(n) == [i \in 1..n |-> <<Len(exchange) + 1, i>>]

\* status 200 with a JSON list, or with a JSON object that has 'items'
PageResponses ==
    {Response(kind, ItemsOf(n), Absent, Absent) : kind \in {"list", "search"}, n \in 0..PerPage}

\* status 200 with a JSON value that is no list and has no 'items'
ResourceResponse == Response("resource", <<>>, Absent, Absent)

RateLimits(ex) == Len(SelectSeq(ex, LAMBDA x : x.resp.kind = "rate_limit"))

FullPages(ex) == Len(SelectSeq(ex, LAMBDA x : Len(x.resp.items) = PerPage))

SleepSeconds_IgnoresRetryAfter(resp) ==
    (IF resp.reset = Absent THEN 60 ELSE Max(30, resp.reset.val)) + 1

\* the argument of time.sleep
SleepSeconds(resp) ==
    (IF resp.retry_after # Absent
     THEN resp.retry_after.val
     ELSE IF resp.reset = Absent THEN 60 ELSE Max(30, resp.reset.val)) + 1

RetryPage_Advances(p) == p + 1

\* page after `continue`
RetryPage(p) == p

LastPage_EmptyOnly(page_data) == page_data = <<>>

\* the two break conditions
LastPage(page_data) == page_data = <<>> \/ Len(page_data) < PerPage

FailureResult_Partial(acc) == acc

\* return [] in the except clauses
FailureResult(acc) == <<>>

PageInit ==
    /\ pg_pc = "request"
    /\ page = 1
    /\ pg_results = <<>>
    /\ exchange = <<>>
    /\ slept = <<>>
    /\ pg_return = [kind |-> "none", items |-> <<>>]
    /\ json_data = <<>>
    /\ config = DefaultsConfig
    /\ pc = "idle"
    /\ result = <<>>
    /\ status = "none"
    /\ argsort = NoMemo
    /\ result2 = <<>>
    /\ status2 = "none"
    /\ GatherIdle
    /\ MainIdle

\* 403 with a rate-limit body: sleep and continue
pg_rate_limited ==
    /\ pg_pc = "request"
    /\ RateLimits(exchange) < MaxRateLimits
    /\ \E resp \in RateLimitResponses :
          /\ exchange' = Append(exchange, [page |-> page, resp |-> resp])
          /\ slept' = Append(slept, SleepSeconds(resp))
    /\ page' = RetryPage(page)
    /\ UNCHANGED <<pg_pc, pg_results, pg_return>>
    /\ UNCHANGED <<analyzerVars, gatherVars, mainVars>>

\* a list page: extend results, then break or go to the next page
pg_page ==
    /\ pg_pc = "request"
    /\ \E resp \in PageResponses :
          /\ Len(resp.items) = PerPage => FullPages(exchange) < MaxFullPages
          /\ exchange' = Append(exchange, [page |-> page, resp |-> resp])
          /\ pg_results' = pg_results \o resp.items
          /\ IF LastPage(resp.items)
             THEN /\ pg_pc' = "returned"
                  /\ pg_return' = [kind |-> "list", items |-> pg_results']
                  /\ UNCHANGED page
             ELSE /\ page' = page + 1
                  /\ UNCHANGED <<pg_pc, pg_return>>
    /\ UNCHANGED slept
    /\ UNCHANGED <<analyzerVars, gatherVars, mainVars>>

\* a single resource: return page_data
pg_resource ==
    /\ pg_pc = "request"
    /\ exchange' = Append(exchange, [page |-> page, resp |-> ResourceResponse])
    /\ pg_pc' = "returned"
    /\ pg_return' = [kind |-> "resource", items |-> <<>>]
    /\ UNCHANGED <<page, pg_results, slept>>
    /\ UNCHANGED <<analyzerVars, gatherVars, mainVars>>

\* RequestException or ValueError: return []
pg_failed ==
    /\ pg_pc = "request"
    /\ \E resp \in FailureResponses :
          exchange' = Append(exchange, [page |-> page, resp |-> resp])
    /\ pg_pc' = "returned"
    /\ pg_return' = [kind |-> "list", items |-> FailureResult(pg_results)]
    /\ UNCHANGED <<page, pg_results, slept>>
    /\ UNCHANGED <<analyzerVars, gatherVars, mainVars>>

PageNext == pg_rate_limited \/ pg_page \/ pg_resource \/ pg_failed

PageSpec == PageInit /\ [][PageNext]_vars

\* the interpreter keeps running the loop
PageFairSpec == PageSpec /\ WF_vars(PageNext)

(***************************************************************************)
(* Vocabulary of the properties of paginated_get.                          *)
(***************************************************************************)
PageReturned == pg_pc = "returned"

\* a rate-limit response the function sleeps on
Retried(x) == x.resp.kind = "rate_limit" /\ x.resp.retry_after # HttpDate

IsPage(x) == x.resp.kind \in {"list", "search"}

IsFailure(x) == x.resp \in FailureResponses

\* the exchange without the rate-limit responses that were retried
WithoutRateLimits == SelectSeq(exchange, LAMBDA x : ~Retried(x))

\* the list pages received
PagesReceived == SelectSeq(exchange, IsPage)

RECURSIVE Flatten(_)
Flatten(pages) ==
    IF pages = <<>> THEN <<>> ELSE Head(pages).resp.items \o Flatten(Tail(pages))

\* the value paginated_get returns on an exchange without rate-limit
\* responses; kind "none" when the exchange ends before the function returns
RECURSIVE Replay(_, _)
Replay(ex, acc) ==
    IF ex = <<>> THEN [kind |-> "none", items |-> <<>>]
    ELSE LET r == Head(ex).resp
         IN  CASE r.kind \in {"list", "search"} ->
                    IF Len(r.items) < PerPage
                    THEN [kind |-> "list", items |-> acc \o r.items]
                    ELSE Replay(Tail(ex), acc \o r.items)
               [] r.kind = "resource" -> [kind |-> "resource", items |-> <<>>]
               [] OTHER -> [kind |-> "list", items |-> <<>>]

(***************************************************************************)
(* C24: on a 403 whose body mentions a rate limit paginated_get sleeps     *)
(* Retry-After + 1 seconds when Retry-After is present (a number of        *)
(* seconds) and requests the same page again; the page number is not       *)
(* advanced and the pages accumulated are kept, so the value returned is   *)
(* that of the same exchange without the rate-limit responses.             *)
(***************************************************************************)
C24_RateLimitRetriesSamePage ==
    LET retried == SelectSeq(exchange, Retried)
    IN  /\ Len(slept) = Len(retried)
        /\ \A k \in 1..Len(retried) :
              retried[k].resp.retry_after # Absent
                  => slept[k] = retried[k].resp.retry_after.val + 1
        /\ \A n \in 1..Len(exchange) :
              Retried(exchange[n]) =>
                  IF n < Len(exchange)
                  THEN exchange[n + 1].page = exchange[n].page
                  ELSE pg_pc = "request" /\ page = exchange[n].page
        /\ \A n \in 1..Len(WithoutRateLimits) : WithoutRateLimits[n].page = n
        /\ pg_results = Flatten(PagesReceived)
        /\ PageReturned => pg_return = Replay(WithoutRateLimits, <<>>)

\* a full page, a rate-limit response with Retry-After on page 2, then the
\* short page 2
C24_Witness ==
    /\ PageReturned
    /\ Len(exchange) = 3
    /\ IsPage(exchange[1])
    /\ Retried(exchange[2])
    /\ exchange[2].resp.retry_after = Seconds(2)
    /\ slept = <<3>>
    /\ exchange[3].page = 2
    /\ Len(pg_return.items) = PerPage + 1

(***************************************************************************)
(* C25: paginated_get requests the pages 1, 2, 3, ... in order and returns *)
(* the concatenation, in page order, of the list pages received; it stops, *)
(* without a further request, after the first page that is empty or holds  *)
(* fewer than per_page items, and requests the next page after every page  *)
(* that holds exactly per_page items.                                      *)
(***************************************************************************)
OnlyPages == \A n \in 1..Len(exchange) : Retried(exchange[n]) \/ IsPage(exchange[n])

C25_PagesInOrder ==
    OnlyPages =>
        LET pages == PagesReceived
        IN  /\ \A n \in 1..Len(pages) : pages[n].page = n
            /\ \A n \in 1..(Len(pages) - 1) : Len(pages[n].resp.items) = PerPage
            /\ pg_pc = "request" =>
                  /\ \A n \in 1..Len(pages) : Len(pages[n].resp.items) = PerPage
                  /\ page = Len(pages) + 1
            /\ PageReturned =>
                  /\ Len(pages) >= 1
                  /\ Len(pages[Len(pages)].resp.items) < PerPage
                  /\ IsPage(exchange[Len(exchange)])
                  /\ pg_return = [kind |-> "list", items |-> Flatten(pages)]

\* two full pages and a third page with one item
C25_Witness ==
    /\ PageReturned
    /\ OnlyPages
    /\ Len(PagesReceived) = 3
    /\ Len(PagesReceived[3].resp.items) = 1
    /\ Len(pg_return.items) = 2 * PerPage + 1
    /\ pg_return.items[1] = PagesReceived[1].resp.items[1]

(***************************************************************************)
(* C28: when a request fails with a request exception (an error status     *)
(* such as a 403 without a rate-limit body included) or the body is not    *)
(* JSON, paginated_get returns an empty list and discards the pages        *)
(* accumulated; it never returns a partial list of pages.                  *)
(***************************************************************************)
C28_FailureReturnsEmptyList ==
    PageReturned =>
        /\ IsFailure(exchange[Len(exchange)])
              => pg_return = [kind |-> "list", items |-> <<>>]
        /\ (pg_return.kind = "list" /\ pg_return.items # <<>>) =>
              /\ \A n \in 1..Len(exchange) : ~IsFailure(exchange[n])
              /\ pg_return.items = Flatten(PagesReceived)

\* a 403 without rate-limit body after a full page
C28_Witness ==
    /\ PageReturned
    /\ exchange[Len(exchange)].resp.kind = "forbidden"
    /\ Len(pg_results) >= PerPage
    /\ pg_return.items = <<>>

(***************************************************************************)
(* C30: paginated_get eventually returns when the server sends finitely    *)
(* many rate-limit responses and finitely many full pages; the retries of  *)
(* one page are not capped: every rate-limit response is followed by       *)
(* another request for the same page.                                      *)
(***************************************************************************)
C30_EventuallyReturns ==
    /\ <>PageReturned
    /\ \A n \in 1..(MaxRateLimits + MaxFullPages) :
          (Len(exchange) = n /\ Retried(exchange[n]))
              ~> (Len(exchange) > n /\ exchange[n + 1].page = exchange[n].page)

\* every rate-limit response the server may send hits page 1, then the
\* function returns
C30_Witness ==
    /\ PageReturned
    /\ RateLimits(exchange) = MaxRateLimits
    /\ Len(exchange) = MaxRateLimits + 1
    /\ \A n \in 1..Len(exchange) : exchange[n].page = 1
    /\ IsPage(exchange[Len(exchange)])

(***************************************************************************)
(* determine_usernames (src/main.py).  A username is a sequence of         *)
(* characters.  None and the empty list are both the empty sequence: the   *)
(* code tests args.user, args.get_user and args.exclude_user for truth     *)
(* only.  The selection options are mutually exclusive, as the argument    *)
(* parser makes them.                                                      *)
(***************************************************************************)
Names == {<<"a">>, <<" ", "a", " ">>, <<"b">>, <<"b", " ">>, <<" ">>}

NameLists == {<<>>} \cup {<<n>> : n \in Names} \cup {<<n1, n2>> : n1 \in Names, n2 \in Names}

RECURSIVE LStrip(_)
LStrip(u) == IF u # <<>> /\ Head(u) = " " THEN LStrip(Tail(u)) ELSE u

RECURSIVE RStrip(_)
RStrip(u) == IF u # <<>> /\ u[Len(u)] = " " THEN RStrip(SubSeq(u, 1, Len(u) - 1)) ELSE u

\* u.strip()
Strip(u) == RStrip(LStrip(u))

\* the branches that call github_api.get_collaborators
FetchesCollaborators(a) == a.all_collaborators \/ (a.user = <<>> /\ a.get_user = <<>>)

\* usernames before the exclusions
SelectUsernames(a, collab) ==
    IF a.all_collaborators THEN collab
    ELSE IF a.user # <<>> THEN a.user
    ELSE IF a.get_user # <<>> THEN <<a.get_user>>
    ELSE collab

\* [u for u in usernames if u not in args.exclude_user]
ApplyExclusions(names, excl) ==
    IF excl # <<>>
    THEN SelectSeq(names, LAMBDA u : \A i \in 1..Len(excl) : excl[i] # u)
    ELSE names

Exit1 == [status |-> "exit", code |-> 1, usernames |-> <<>>]

VerifyNonEmpty_ReturnsEmpty(names) ==
    [status |-> "returned", code |-> 0, usernames |-> names]

\* if not usernames: sys.exit(1), else return usernames
VerifyNonEmpty(names) ==
    IF names = <<>> THEN Exit1
    ELSE [status |-> "returned", code |-> 0, usernames |-> names]

\* the outcome of determine_usernames(args, logger) when get_collaborators,
\* if called, answers collab
DetermineUsernames(a, collab) ==
    LET selected == SelectUsernames(a, collab)
        filtered == ApplyExclusions(selected, a.exclude_user)
        stripped == [i \in 1..Len(filtered) |-> Strip(filtered[i])]
    IN  IF FetchesCollaborators(a) /\ selected = <<>> THEN Exit1
        ELSE VerifyNonEmpty(stripped)

Arguments ==
    {[all_collaborators |-> ac, user |-> us, get_user |-> gu, exclude_user |-> ex] :
        ac \in BOOLEAN, us \in NameLists, gu \in Names \cup {<<>>}, ex \in NameLists}

MainInit ==
    /\ args \in {a \in Arguments :
                    \/ a.user = <<>> /\ a.get_user = <<>>
                    \/ ~a.all_collaborators /\ a.user # <<>> /\ a.get_user = <<>>
                    \/ ~a.all_collaborators /\ a.user = <<>> /\ a.get_user # <<>>}
    /\ collaborators = <<>>
    /\ du_outcome = [status |-> "none", code |-> 0, usernames |-> <<>>]
    /\ json_data = <<>>
    /\ config = DefaultsConfig
    /\ pc = "idle"
    /\ result = <<>>
    /\ status = "none"
    /\ argsort = NoMemo
    /\ result2 = <<>>
    /\ status2 = "none"
    /\ GatherIdle
    /\ PageIdle

\* one call of determine_usernames(args, logger)
determine_usernames ==
    /\ du_outcome.status = "none"
    /\ \E collab \in NameLists :
          /\ FetchesCollaborators(args) \/ collab = <<>>
          /\ collaborators' = collab
          /\ du_outcome' = DetermineUsernames(args, collab)
    /\ UNCHANGED args
    /\ UNCHANGED <<analyzerVars, gatherVars, pageVars>>

MainNext == determine_usernames

MainSpec == MainInit /\ [][MainNext]_vars

(***************************************************************************)
(* C26: the list determine_usernames returns contains no username listed   *)
(* in args.exclude_user, and keeps the remaining usernames, stripped of    *)
(* surrounding whitespace, in their original order.                        *)
(***************************************************************************)
Excluded(u) == \E i \in 1..Len(args.exclude_user) : args.exclude_user[i] = u

\* the users selected by the options, before exclusion and clean-up
SelectedUsers ==
    IF FetchesCollaborators(args) THEN collaborators
    ELSE IF args.user # <<>> THEN args.user
    ELSE <<args.get_user>>

\* the selected usernames stripped, without the excluded ones
RemainingStripped ==
    SelectSeq([i \in 1..Len(SelectedUsers) |-> Strip(SelectedUsers[i])],
              LAMBDA u : ~Excluded(u))

C26_NoExcludedUsername ==
    du_outcome.status = "returned" =>
        /\ \A i \in 1..Len(du_outcome.usernames) : ~Excluded(du_outcome.usernames[i])
        /\ du_outcome.usernames = RemainingStripped

(***************************************************************************)
(* C27: determine_usernames exits with status 1 instead of returning       *)
(* whenever the list of users to process would be empty: when              *)
(* collaborators are fetched and none are found, and when every selected   *)
(* user is removed by the exclusion list; otherwise it returns a non-empty *)
(* list.                                                                   *)
(***************************************************************************)
AllExcluded == \A i \in 1..Len(SelectedUsers) : Excluded(SelectedUsers[i])

C27_ExitsWhenEmpty ==
    du_outcome.status # "none" =>
        IF (FetchesCollaborators(args) /\ collaborators = <<>>) \/ AllExcluded
        THEN du_outcome.status = "exit" /\ du_outcome.code = 1
        ELSE du_outcome.status = "returned" /\ Len(du_outcome.usernames) >= 1

\* two users given with --user, both excluded: exit
C27_Witness ==
    /\ du_outcome.status = "exit"
    /\ Len(args.user) = 2
    /\ args.user[1] # args.user[2]
    /\ AllExcluded

====
